---- MODULE Spec2Model ----
(***************************************************************************)
(* Weekly seat allocation engine (execucao_modelo.py): the venue model,    *)
(* the feasibility pre-check, the MILP formulation of one scenario, the    *)
(* interpretation of the solver status, the allocation extraction and the  *)
(* sweep over the configured scenarios (ExecucaoModelo.executar).          *)
(*                                                                         *)
(* The MILP solver (PuLP/CBC) is an external collaborator.  It is modelled *)
(* by its contract: a status code of LpStatus plus, when a solution is     *)
(* available, one value per decision variable; a solution it reports       *)
(* satisfies every constraint the program added to the problem.            *)
(*                                                                         *)
(* Identifiers: the table id "Corredor c_Mm" is the pair <<c, m>>, the     *)
(* position id "Corredor c_Mm_Pp" is the triple <<c, m, p>>, the corridor  *)
(* label "Corredor c" is c, and the allocation key "{k}d | {dia} . {cor}"  *)
(* is the triple <<k, dia, c>>.                                            *)
(***************************************************************************)
EXTENDS Integers, Sequences, FiniteSets, TLC

(* ------------------------------ bounds --------------------------------- *)
MaxCap == 2
MaxSize == 2
MaxFolga == 1
MaxK == 1
MaxCorr == 2
MaxTab == 3
MaxPos == 2
MaxKArg == 2
MaxRangeLen == 3

(* --------------------------- program constants ------------------------- *)
DIAS_UTEIS == <<"Segunda", "Terca", "Quarta", "Quinta", "Sexta">>

(* default of ConfiguracaoModelo's peso_distancia *)
PesoDistanciaDefault == 10

LpStatusOptimal == 1
LpStatusNotSolved == 0
LpStatusInfeasible == -1
LpStatusUnbounded == -2
LpStatusUndefined == -3

LpStatus ==
  [s \in {LpStatusOptimal, LpStatusNotSolved, LpStatusInfeasible,
          LpStatusUnbounded, LpStatusUndefined} |->
     CASE s = LpStatusOptimal -> "Optimal"
       [] s = LpStatusNotSolved -> "Not Solved"
       [] s = LpStatusInfeasible -> "Infeasible"
       [] s = LpStatusUnbounded -> "Unbounded"
       [] OTHER -> "Undefined"]

VIABLE_STATI == {LpStatusOptimal}
INFEASIBLE_STATI == {LpStatusInfeasible, LpStatusUnbounded, LpStatusUndefined}
MAYBE_STATI == {LpStatusNotSolved}

(* Python's None: no value, distinct from every status code and every value *)
None == -9
Nomes == <<"A", "B">>

VARIABLES args, layout, times, folga_minima, dias_obrigatorios_range,
          mesas, posicoes, dist, cap_total,
          pc, i, prob_status, values, status_k,
          viaveis, inviaveis, alocacoes, model_dict, var_dict,
          rep_k, rep,
          range_arg, peso_distancia, objs, cad

(* the registry of teams: the Time objects made so far, and the dictionary *)
(* 'times' of CadastroTimesSinergias                                       *)
cadastro == <<objs, cad>>

inputs == <<args, layout, times, folga_minima, dias_obrigatorios_range,
            mesas, posicoes, dist, cap_total, range_arg, peso_distancia,
            cadastro>>

(* the last sensitivity report asked for, and the k it was asked for *)
report == <<rep_k, rep>>

vars == <<inputs, pc, i, prob_status, values, status_k,
          viaveis, inviaveis, alocacoes, model_dict, var_dict, report>>

(* ------------------------------ helpers -------------------------------- *)
RECURSIVE SumSeq(_)
SumSeq(s) == IF s = <<>> THEN 0 ELSE Head(s) + SumSeq(Tail(s))

RECURSIVE SetToSortedSeq(_)
SetToSortedSeq(S) ==
  IF S = {} THEN <<>>
  ELSE LET m == CHOOSE a \in S : \A b \in S : a <= b
       IN <<m>> \o SetToSortedSeq(S \ {m})

Range(s) == {s[j] : j \in 1..Len(s)}

dias == Range(DIAS_UTEIS)

(* ------------------------------ venue ---------------------------------- *)
(* mutant: the per-corridor table counts are not looked at *)
LayoutValidNoTableCheck(nc, tpc, ppt) ==
  /\ nc > 0
  /\ ppt > 0
  /\ Len(tpc) = nc

LayoutValid(nc, tpc, ppt) ==
  /\ nc > 0
  /\ ppt > 0
  /\ Len(tpc) = nc
  /\ \A j \in 1..Len(tpc) : tpc[j] > 0

ListaMesas(lay) ==
  LET Row(c) == [m \in 1..lay.tables_per_corridor[c] |-> <<c, m>>]
      RECURSIVE Acc(_)
      Acc(c) == IF c = 0 THEN <<>> ELSE Acc(c - 1) \o Row(c)
  IN Acc(lay.num_corridors)

(* mutant: the last position of every table is left out *)
ListaPosicoesShort(lay) ==
  LET ms == ListaMesas(lay)
      Row(j) == [p \in 1..(lay.positions_per_table - 1) |-> <<ms[j][1], ms[j][2], p>>]
      RECURSIVE Acc(_)
      Acc(j) == IF j = 0 THEN <<>> ELSE Acc(j - 1) \o Row(j)
  IN Acc(Len(ms))

ListaPosicoes(lay) ==
  LET ms == ListaMesas(lay)
      Row(j) == [p \in 1..lay.positions_per_table |-> <<ms[j][1], ms[j][2], p>>]
      RECURSIVE Acc(_)
      Acc(j) == IF j = 0 THEN <<>> ELSE Acc(j - 1) \o Row(j)
  IN Acc(Len(ms))

(* str(n) as its decimal digits' character codes *)
RECURSIVE Digits(_)
Digits(n) == IF n < 10 THEN <<48 + n>> ELSE Digits(n \div 10) \o <<48 + (n % 10)>>

(* the table id "Corredor c_Mm" after its constant prefix "Corredor " *)
MesaIdChars(m) == Digits(m[1]) \o <<95, 77>> \o Digits(m[2])

(* Python's < on strings *)
RECURSIVE StrLess(_, _)
StrLess(a, b) ==
  IF b = <<>> THEN FALSE
  ELSE IF a = <<>> THEN TRUE
  ELSE IF Head(a) # Head(b) THEN Head(a) < Head(b)
  ELSE StrLess(Tail(a), Tail(b))

(* the position id "Corredor c_Mm_Pp" after its constant prefix "Corredor " *)
PosIdChars(p) == MesaIdChars(<<p[1], p[2]>>) \o <<95, 80>> \o Digits(p[3])

Abs(n) == IF n < 0 THEN -n ELSE n

(* mutant: tables of different corridors get no penalty *)
DistMesasNoPenalty(ms) ==
  LET S == {ms[j] : j \in 1..Len(ms)}
      Keys == {pr \in S \X S : StrLess(MesaIdChars(pr[1]), MesaIdChars(pr[2]))}
  IN [pr \in Keys |-> Abs(pr[1][2] - pr[2][2])]

DistMesas(ms) ==
  LET S == {ms[j] : j \in 1..Len(ms)}
      Keys == {pr \in S \X S : StrLess(MesaIdChars(pr[1]), MesaIdChars(pr[2]))}
  IN [pr \in Keys |->
        IF pr[1] = pr[2] THEN 0
        ELSE IF pr[1][1] = pr[2][1] THEN Abs(pr[1][2] - pr[2][2])
        ELSE 5 + Abs(pr[1][2] - pr[2][2])]

PosSet == {posicoes[j] : j \in 1..Len(posicoes)}

MesaDe(p) == <<p[1], p[2]>>
CorredorDe(p) == p[1]

nomes == [j \in 1..Len(times) |-> times[j].nome]
NomeSet == Range(nomes)
Qtde(t) == (CHOOSE r \in Range(times) : r.nome = t).qtde_integrantes

(* --------------------------- pre-check --------------------------------- *)
Pessoas == SumSeq([j \in 1..Len(times) |-> times[j].qtde_integrantes])

(* mutant: the pre-check also turns away a team that fits on no day *)
UpperBoundFeasibleEveryTeamFits(k) ==
  /\ Pessoas * k <= Len(DIAS_UTEIS) * (cap_total - folga_minima)
  /\ \A j \in 1..Len(times) : times[j].qtde_integrantes <= cap_total - folga_minima

(* mutant: the comparison is strict *)
UpperBoundFeasibleStrict(k) ==
  Pessoas * k < Len(DIAS_UTEIS) * (cap_total - folga_minima)

(* mutant: the pre-check compares the weekly demand with one day's capacity *)
UpperBoundFeasibleNoAverage(k) ==
  Pessoas * k <= cap_total - folga_minima

UpperBoundFeasible(k) ==
  Pessoas * k <= Len(DIAS_UTEIS) * (cap_total - folga_minima)

(* ---------------------- MILP of one scenario --------------------------- *)
(* Keys of the decision variables, in the order the dictionaries are built *)
XKeysOf(d) == {<<t, p, d>> : t \in NomeSet, p \in PosSet}
XKeys == UNION {XKeysOf(d) : d \in dias}
PresKeys == NomeSet \X dias

XKeysSeq ==
  LET np == Len(posicoes)
      nd == Len(DIAS_UTEIS)
  IN [n \in 1..(Len(times) * np * nd) |->
        <<nomes[((n - 1) \div (np * nd)) + 1],
          posicoes[(((n - 1) \div nd) % np) + 1],
          DIAS_UTEIS[((n - 1) % nd) + 1]>>]

(* mutant: the seat bound is written 2 instead of 1 *)
SeatExclusiveLoose(x, p, d) ==
  SumSeq([j \in 1..Len(nomes) |-> x[<<nomes[j], p, d>>]]) <= 2

(* constraint: at most one team per seat per day *)
SeatExclusive(x, p, d) ==
  SumSeq([j \in 1..Len(nomes) |-> x[<<nomes[j], p, d>>]]) <= 1

(* mutant: the attendance equality is written as an upper bound *)
FullAttendancePartial(x, pres, t, d) ==
  SumSeq([j \in 1..Len(posicoes) |-> x[<<t, posicoes[j], d>>]])
    <= Qtde(t) * pres[<<t, d>>]

(* constraint: a team is seated in full or not at all *)
FullAttendance(x, pres, t, d) ==
  SumSeq([j \in 1..Len(posicoes) |-> x[<<t, posicoes[j], d>>]])
    = Qtde(t) * pres[<<t, d>>]

(* mutant: the required days are a maximum *)
ExactDaysAtMost(pres, t, dias_obrig) ==
  SumSeq([j \in 1..Len(DIAS_UTEIS) |-> pres[<<t, DIAS_UTEIS[j]>>]]) <= dias_obrig

(* constraint: each team is present on exactly dias_obrig days *)
ExactDays(pres, t, dias_obrig) ==
  SumSeq([j \in 1..Len(DIAS_UTEIS) |-> pres[<<t, DIAS_UTEIS[j]>>]]) = dias_obrig

(* mutant: the daily bound forgets folga_minima *)
DailySlackNoFolga(x, d) ==
  SumSeq([n \in 1..(Len(nomes) * Len(posicoes)) |->
            x[<<nomes[((n - 1) \div Len(posicoes)) + 1],
                posicoes[((n - 1) % Len(posicoes)) + 1], d>>]])
    <= cap_total

(* constraint: the daily occupation leaves folga_minima seats free *)
DailySlack(x, d) ==
  SumSeq([n \in 1..(Len(nomes) * Len(posicoes)) |->
            x[<<nomes[((n - 1) \div Len(posicoes)) + 1],
                posicoes[((n - 1) % Len(posicoes)) + 1], d>>]])
    <= cap_total - folga_minima

DayConstraints(x, pres, d) ==
  /\ \A p \in PosSet : SeatExclusive(x, p, d)
  /\ \A t \in NomeSet : FullAttendance(x, pres, t, d)
  /\ DailySlack(x, d)

(* every constraint of the problem on the x and pres variables; the y and  *)
(* z variables only appear in constraints they can always satisfy (all 1)  *)
Constraints(a, dias_obrig) ==
  /\ \A d \in dias : DayConstraints(a.x, a.pres, d)
  /\ \A t \in NomeSet : ExactDays(a.pres, t, dias_obrig)

(* the set of binary assignments satisfying Constraints, built day by day *)
DaySolutions(pres, d) ==
  {xs \in [XKeysOf(d) -> {0, 1}] : DayConstraints(xs, pres, d)}

RECURSIVE WeekSolutions(_, _)
WeekSolutions(pres, n) ==
  IF n = 0 THEN {<<>>}
  ELSE {w @@ xs : w \in WeekSolutions(pres, n - 1),
                  xs \in DaySolutions(pres, DIAS_UTEIS[n])}

RECURSIVE PresSolutions(_, _)
PresSolutions(dias_obrig, n) ==
  IF n = 0 THEN {<<>>}
  ELSE {w @@ q : w \in PresSolutions(dias_obrig, n - 1),
                 q \in {r \in [{nomes[n]} \X dias -> {0, 1}] :
                          ExactDays(r, nomes[n], dias_obrig)}}

FeasibleSet(dias_obrig) ==
  UNION {{[x |-> w, pres |-> pr] : w \in WeekSolutions(pr, Len(DIAS_UTEIS))} :
           pr \in PresSolutions(dias_obrig, Len(nomes))}

NoValues == [x |-> [key \in XKeys |-> None], pres |-> [key \in PresKeys |-> None]]

(* ------------------- _solve_for_k after the solve ---------------------- *)
(* mutant: the test reads "is None" *)
AnyValueInverted(vals) ==
  \/ \E key \in DOMAIN vals.x : vals.x[key] = None
  \/ \E key \in DOMAIN vals.pres : vals.pres[key] = None

(* any(v.value() is not None for v in prob.variables()): the y and z       *)
(* variables carry values exactly when the x and pres variables do         *)
AnyValue(vals) ==
  \/ \E key \in DOMAIN vals.x : vals.x[key] # None
  \/ \E key \in DOMAIN vals.pres : vals.pres[key] # None

OcupTotal(xv) == SumSeq([n \in 1..Len(XKeysSeq) |-> xv[XKeysSeq[n]]])

(* round(ocup_total / (ND * cap_total), 3), in thousandths *)
TaxaSemanal(ocup_total) ==
  LET num == ocup_total * 1000
      den == Len(DIAS_UTEIS) * cap_total
      q == num \div den
      r == num % den
  IN IF 2 * r < den THEN q
     ELSE IF 2 * r > den THEN q + 1
     ELSE IF q % 2 = 0 THEN q ELSE q + 1

(* mutant: every status of the infeasible family is reported "Infeasible" *)
SolveResultOneName(dias_obrig, st, vals) ==
  IF st \in INFEASIBLE_STATI THEN [status |-> "Infeasible"]
  ELSE IF st \in MAYBE_STATI /\ ~AnyValue(vals) THEN [status |-> LpStatus[st]]
  ELSE [status |-> IF st \in MAYBE_STATI THEN "Feasible" ELSE LpStatus[st],
        ocup_total |-> OcupTotal(vals.x),
        taxa_semanal |-> TaxaSemanal(OcupTotal(vals.x)),
        model |-> [name |-> dias_obrig, status |-> st, pres |-> vals.pres],
        x_vars |-> vals.x]

(* the dictionary _solve_for_k returns once the solver has returned; its  *)
(* tempo_execucao entry, a wall-clock reading, is left out                *)
SolveResult(dias_obrig, st, vals) ==
  IF st \in INFEASIBLE_STATI THEN [status |-> LpStatus[st]]
  ELSE IF st \in MAYBE_STATI /\ ~AnyValue(vals) THEN [status |-> LpStatus[st]]
  ELSE [status |-> IF st \in MAYBE_STATI THEN "Feasible" ELSE LpStatus[st],
        ocup_total |-> OcupTotal(vals.x),
        taxa_semanal |-> TaxaSemanal(OcupTotal(vals.x)),
        model |-> [name |-> dias_obrig, status |-> st, pres |-> vals.pres],
        x_vars |-> vals.x]

(* ------------------------ allocation extraction ------------------------ *)
FindMesa(lst, mesa_num) ==
  IF \E j \in 1..Len(lst) : lst[j].mesa = mesa_num
  THEN CHOOSE j \in 1..Len(lst) :
         /\ lst[j].mesa = mesa_num
         /\ \A h \in 1..(j - 1) : lst[h].mesa # mesa_num
  ELSE 0

(* mutant: a seat on a table already listed in the group is not recorded *)
AlocStepFirstSeatOnly(k, aloc, key) ==
  LET team == key[1]
      pos == key[2]
      dia == key[3]
      mesa_num == MesaDe(pos)[2]
      corredor == CorredorDe(pos)
      chave == <<k, dia, corredor>>
      lst == IF chave \in DOMAIN aloc THEN aloc[chave] ELSE <<>>
      j == FindMesa(lst, mesa_num)
      novo == IF j = 0
              THEN Append(lst, [mesa |-> mesa_num, corredor |-> corredor,
                                posicoes |-> <<team>>])
              ELSE lst
  IN [c \in DOMAIN aloc \cup {chave} |-> IF c = chave THEN novo ELSE aloc[c]]

AlocStep(k, aloc, key) ==
  LET team == key[1]
      pos == key[2]
      dia == key[3]
      mesa_num == MesaDe(pos)[2]
      corredor == CorredorDe(pos)
      chave == <<k, dia, corredor>>
      lst == IF chave \in DOMAIN aloc THEN aloc[chave] ELSE <<>>
      j == FindMesa(lst, mesa_num)
      novo == IF j = 0
              THEN Append(lst, [mesa |-> mesa_num, corredor |-> corredor,
                                posicoes |-> <<team>>])
              ELSE [lst EXCEPT ![j].posicoes = Append(@, team)]
  IN [c \in DOMAIN aloc \cup {chave} |-> IF c = chave THEN novo ELSE aloc[c]]

RECURSIVE ExtraiAloc(_, _, _)
ExtraiAloc(k, xv, n) ==
  IF n = 0 THEN <<>>
  ELSE LET prev == ExtraiAloc(k, xv, n - 1)
       IN IF xv[XKeysSeq[n]] # 1 THEN prev ELSE AlocStep(k, prev, XKeysSeq[n])

(* ------------------------------ inputs --------------------------------- *)
Layouts ==
  UNION {{[num_corridors |-> nc, tables_per_corridor |-> tpc,
           positions_per_table |-> ppt] :
            tpc \in {q \in [1..nc -> 1..MaxCap] :
                       /\ LayoutValid(nc, q, ppt)
                       /\ SumSeq(q) * ppt <= MaxCap}} :
         nc \in 1..MaxCap, ppt \in 1..MaxCap}

TimesSeqs ==
  UNION {{[j \in 1..n |-> [nome |-> Nomes[j], qtde_integrantes |-> sz[j]]] :
            sz \in [1..n -> 1..MaxSize]} : n \in 1..Len(Nomes)}

KDomain == 0..MaxK

Ranges ==
  {SetToSortedSeq(S) : S \in {T \in SUBSET KDomain : Cardinality(T) \in 1..2}}

(* Scenario B of the specification: one corridor, two tables of four seats, *)
(* one team of nine, one required day, no slack                            *)
ScenarioB ==
  [layout |-> [num_corridors |-> 1, tables_per_corridor |-> <<2>>,
               positions_per_table |-> 4],
   times |-> <<[nome |-> "Gamma", qtde_integrantes |-> 9]>>,
   folga_minima |-> 0,
   dias_obrigatorios_range |-> <<1>>]

Configs ==
  {[layout |-> l, times |-> t, folga_minima |-> f, dias_obrigatorios_range |-> r] :
     l \in Layouts, t \in TimesSeqs, f \in 0..MaxFolga, r \in Ranges}
  \cup {ScenarioB}

Init ==
  /\ \E cfg \in Configs :
       /\ args = cfg.layout
       /\ layout = cfg.layout
       /\ times = cfg.times
       /\ folga_minima = cfg.folga_minima
       /\ dias_obrigatorios_range = cfg.dias_obrigatorios_range
       /\ range_arg = cfg.dias_obrigatorios_range
       /\ mesas = ListaMesas(cfg.layout)
       /\ posicoes = ListaPosicoes(cfg.layout)
       /\ dist = DistMesas(ListaMesas(cfg.layout))
       /\ cap_total = Len(ListaPosicoes(cfg.layout))
  /\ pc = "loop"
  /\ i = 1
  /\ prob_status = None
  /\ values = None
  /\ status_k = <<>>
  /\ viaveis = <<>>
  /\ inviaveis = <<>>
  /\ alocacoes = <<>>
  /\ model_dict = <<>>
  /\ var_dict = <<>>
  /\ rep_k = None
  /\ rep = None
  /\ peso_distancia = PesoDistanciaDefault
  /\ objs = <<>>
  /\ cad = <<>>

k_atual == dias_obrigatorios_range[i]
InLoop == pc = "loop" /\ i <= Len(dias_obrigatorios_range)

(* ------------------------------ actions -------------------------------- *)
(* mutant: an early rejection is thrown instead of filed *)
EarlyRejectRaises ==
  /\ InLoop
  /\ ~UpperBoundFeasible(k_atual)
  /\ inviaveis' = inviaveis @@ (k_atual :> "EarlyInfeasible")
  /\ status_k' = status_k @@ (k_atual :> "EarlyInfeasible")
  /\ i' = i + 1
  /\ prob_status' = None
  /\ values' = None
  /\ pc' = "raised"
  /\ UNCHANGED <<inputs, report,
                 viaveis, alocacoes, model_dict, var_dict>>

(* _solve_for_k returns before building anything; executar files the k *)
EarlyReject ==
  /\ InLoop
  /\ ~UpperBoundFeasible(k_atual)
  /\ inviaveis' = inviaveis @@ (k_atual :> "EarlyInfeasible")
  /\ status_k' = status_k @@ (k_atual :> "EarlyInfeasible")
  /\ i' = i + 1
  /\ prob_status' = None
  /\ values' = None
  /\ UNCHANGED <<inputs, report, pc,
                 viaveis, alocacoes, model_dict, var_dict>>

(* mutant: the model is built without the capacity pre-check *)
BuildModelUnchecked ==
  /\ InLoop
  /\ pc' = "solve"
  /\ prob_status' = None
  /\ values' = NoValues
  /\ UNCHANGED <<inputs, report, i,
                 status_k, viaveis, inviaveis, alocacoes, model_dict, var_dict>>

(* variables, objective and constraints are built, prob.solve is entered *)
BuildModel ==
  /\ InLoop
  /\ UpperBoundFeasible(k_atual)
  /\ pc' = "solve"
  /\ prob_status' = None
  /\ values' = NoValues
  /\ UNCHANGED <<inputs, report, i,
                 status_k, viaveis, inviaveis, alocacoes, model_dict, var_dict>>

(* the solver returns: a status and, when it holds a solution, its values *)
Solve ==
  /\ pc = "solve"
  /\ LET F == FeasibleSet(k_atual)
     IN \/ /\ prob_status' = LpStatusOptimal
           /\ values' \in F
        \/ /\ prob_status' = LpStatusNotSolved
           /\ values' \in F \cup {NoValues}
        \/ /\ prob_status' = LpStatusInfeasible
           /\ F = {}
           /\ values' = NoValues
        \/ /\ prob_status' \in {LpStatusUnbounded, LpStatusUndefined}
           /\ values' = NoValues
  /\ pc' = "solved"
  /\ UNCHANGED <<inputs, report, i,
                 status_k, viaveis, inviaveis, alocacoes, model_dict, var_dict>>

(* _solve_for_k returns a viable result; executar keeps metrics, model,    *)
(* variables and the extracted allocation                                  *)
Accept ==
  /\ pc = "solved"
  /\ LET res == SolveResult(k_atual, prob_status, values)
     IN /\ res.status \in {"Optimal", "Feasible"}
        /\ viaveis' = viaveis @@ (k_atual :>
              [ocup_total |-> res.ocup_total, taxa_semanal |-> res.taxa_semanal])
        /\ model_dict' = model_dict @@ (k_atual :> res.model)
        /\ var_dict' = var_dict @@ (k_atual :> res.x_vars)
        /\ alocacoes' = alocacoes @@
              (k_atual :> ExtraiAloc(k_atual, res.x_vars, Len(XKeysSeq)))
        /\ status_k' = status_k @@ (k_atual :> res.status)
  /\ pc' = "loop"
  /\ i' = i + 1
  /\ UNCHANGED <<inputs, report,
                 prob_status, values, inviaveis>>

(* mutant: the rejected k is dropped instead of filed *)
RejectDropped ==
  /\ pc = "solved"
  /\ LET res == SolveResult(k_atual, prob_status, values)
     IN /\ res.status \notin {"Optimal", "Feasible"}
        /\ status_k' = status_k @@ (k_atual :> res.status)
  /\ pc' = "loop"
  /\ i' = i + 1
  /\ UNCHANGED <<inputs, report, inviaveis,
                 prob_status, values, viaveis, alocacoes, model_dict, var_dict>>

(* _solve_for_k returns only a status; executar files the k as inviable *)
Reject ==
  /\ pc = "solved"
  /\ LET res == SolveResult(k_atual, prob_status, values)
     IN /\ res.status \notin {"Optimal", "Feasible"}
        /\ inviaveis' = inviaveis @@ (k_atual :> res.status)
        /\ status_k' = status_k @@ (k_atual :> res.status)
  /\ pc' = "loop"
  /\ i' = i + 1
  /\ UNCHANGED <<inputs, report,
                 prob_status, values, viaveis, alocacoes, model_dict, var_dict>>

LoopDone == pc = "loop" /\ i > Len(dias_obrigatorios_range)

Raise ==
  /\ LoopDone
  /\ DOMAIN viaveis = {}
  /\ pc' = "raised"
  /\ UNCHANGED <<inputs, report, i,
                 prob_status, values, status_k, viaveis, inviaveis, alocacoes,
                 model_dict, var_dict>>

(* mutant: the sweep returns whatever it collected *)
ReturnAlways ==
  /\ LoopDone
  /\ pc' = "returned"
  /\ UNCHANGED <<inputs, report, i,
                 prob_status, values, status_k, viaveis, inviaveis, alocacoes,
                 model_dict, var_dict>>

Return ==
  /\ LoopDone
  /\ DOMAIN viaveis # {}
  /\ pc' = "returned"
  /\ UNCHANGED <<inputs, report, i,
                 prob_status, values, status_k, viaveis, inviaveis, alocacoes,
                 model_dict, var_dict>>

Next == EarlyReject \/ BuildModel \/ Solve \/ Accept \/ Reject \/ Raise \/ Return

Spec == Init /\ [][Next]_vars

(* what executar has collected so far *)
results == <<i, prob_status, values, status_k, viaveis, inviaveis, alocacoes,
             model_dict, var_dict>>

(* --------------------- sensitivity report ------------------------------ *)
Repeat(f, n) == [j \in 1..n |-> f]

(* the family of every constraint of a scenario's model, in the order      *)
(* _solve_for_k adds them to the problem                                   *)
ConstraintFamilies ==
  LET nd == Len(DIAS_UTEIS)
      nt == Len(times)
      PosMesa(m) == {j \in 1..Len(posicoes) : MesaDe(posicoes[j]) = m}
  IN Repeat("seat", Len(posicoes) * nd)
     \o Repeat("link",
           nt * SumSeq([n \in 1..Len(mesas) |->
                          nd * (1 + Cardinality(PosMesa(mesas[n])))]))
     \o Repeat("split", nt * Cardinality(DOMAIN dist) * nd)
     \o Repeat("full", nt * nd)
     \o Repeat("days", nt)
     \o Repeat("slack", nd)

(* a constraint added without a name is filed as "_C" and its position *)
ConstraintName(n) == <<95, 67>> \o Digits(n)

StartsWith(str, pre) ==
  Len(str) >= Len(pre) /\ SubSeq(str, 1, Len(pre)) = pre

(* int() of a string of decimal digits *)
RECURSIVE ParseInt(_)
ParseInt(str) ==
  IF str = <<>> THEN 0
  ELSE 10 * ParseInt(SubSeq(str, 1, Len(str) - 1)) + (str[Len(str)] - 48)

(* the labels are kept in ASCII: "Contiguidade Time x Mesa" has the sign   *)
(* of multiplication in the source, "Distancia" its accent                 *)
TipoRest(nome) ==
  IF StartsWith(nome, <<95, 67>>)
  THEN LET idx == ParseInt(SubSeq(nome, 3, Len(nome)))
       IN IF idx <= 5 * 25 THEN "Capacidade Assento"
          ELSE IF idx <= 2 * 5 * 5 THEN "Contiguidade Time x Mesa"
          ELSE IF idx <= 3 * 5 * 5 THEN "Distancia Intra-time"
          ELSE "Outras"
  ELSE IF StartsWith(nome, <<112, 114, 101, 115, 95>>)
  THEN "Obrigatoriedade de dias"
  ELSE "Capacidade Total"

(* mutant: a scenario without a retained model gets three empty tables *)
RelatorioSensibilidadeEmptyTables(k) ==
  IF k \notin DOMAIN model_dict
  THEN [objetivo |-> {}, variaveis |-> {}, restricoes |-> {}]
  ELSE [objetivo |-> {[assentos |-> OcupTotal(var_dict[k])]},
        variaveis |-> {}, restricoes |-> {}]

(* The three tables as sets of rows: the order pandas' sort leaves equal   *)
(* rows in is not fixed. The distance term of the objective, the reduced   *)
(* costs, the shadow prices and the slacks are solver outputs that are not *)
(* part of the state; the objective row keeps the seats term.              *)
RelatorioSensibilidade(k) ==
  IF k \notin DOMAIN model_dict THEN <<>>
  ELSE [objetivo |-> {[assentos |-> OcupTotal(var_dict[k])]},
        variaveis |->
          {[Time |-> key[1], Corredor |-> CorredorDe(key[2]),
            Mesa |-> key[2][2], Posicao |-> key[2][3], Dia |-> key[3],
            Alocado |-> var_dict[k][key]] : key \in DOMAIN var_dict[k]},
        restricoes |->
          {[Restricao_ID |-> ConstraintName(n), Tipo |-> TipoRest(ConstraintName(n))] :
             n \in 1..Len(ConstraintFamilies)}]

(* scenarios a report may be asked for: configured or not *)
ReportKs == 0..(MaxK + 1)

(* the results page: VisualizacaoResultados over what executar returned,   *)
(* and relatorio_sensibilidade(k)                                          *)
MostraRelatorio ==
  /\ pc = "returned"
  /\ \E k \in ReportKs :
       /\ rep_k' = k
       /\ rep' = RelatorioSensibilidade(k)
  /\ UNCHANGED <<inputs, pc, results>>

NextReport ==
  \/ EarlyReject \/ BuildModel \/ Solve \/ Accept \/ Reject \/ Raise \/ Return
  \/ MostraRelatorio

SpecReport == Init /\ [][NextReport]_vars

(* ------------------ construction of the configuration ------------------ *)
(* the argument left out (None), told apart from every list of days *)
ArgNone == <<None>>

(* mutant: the list is kept as handed over, neither sorted nor deduplicated *)
NormalizaRangeAsGiven(arg) ==
  IF arg = ArgNone \/ arg = <<>> THEN <<2>> ELSE arg

(* None or an empty list becomes [2]; then sorted(set(...)) *)
NormalizaRange(arg) ==
  IF arg = ArgNone \/ arg = <<>> THEN <<2>>
  ELSE SetToSortedSeq(Range(arg))

(* lists a caller may hand over: any order, repeats, empty, or None *)
RangeArgs ==
  {ArgNone} \cup UNION {[1..n -> 0..MaxKArg] : n \in 0..MaxRangeLen}

(* one seat; a team that fits and a team that does not *)
ConfigTimes ==
  {<<[nome |-> Nomes[1], qtde_integrantes |-> 1]>>,
   <<[nome |-> Nomes[1], qtde_integrantes |-> 3]>>}

ConfigLayout ==
  [num_corridors |-> 1, tables_per_corridor |-> <<1>>, positions_per_table |-> 1]

InitConfig ==
  /\ range_arg \in RangeArgs
  /\ folga_minima \in -1..0
  /\ dias_obrigatorios_range = <<>>
  /\ times \in ConfigTimes
  /\ args = ConfigLayout
  /\ layout = ConfigLayout
  /\ mesas = ListaMesas(ConfigLayout)
  /\ posicoes = ListaPosicoes(ConfigLayout)
  /\ dist = DistMesas(ListaMesas(ConfigLayout))
  /\ cap_total = Len(ListaPosicoes(ConfigLayout))
  /\ pc = "config_args"
  /\ i = 1
  /\ prob_status = None
  /\ values = None
  /\ status_k = <<>>
  /\ viaveis = <<>>
  /\ inviaveis = <<>>
  /\ alocacoes = <<>>
  /\ model_dict = <<>>
  /\ var_dict = <<>>
  /\ rep_k = None
  /\ rep = None
  /\ peso_distancia = PesoDistanciaDefault
  /\ objs = <<>>
  /\ cad = <<>>

(* ConfiguracaoModelo.__init__ raises ValueError on a negative slack *)
ConfigRejected ==
  /\ pc = "config_args"
  /\ folga_minima < 0
  /\ pc' = "config_error"
  /\ UNCHANGED <<inputs, results, report>>

(* ConfiguracaoModelo.__init__ runs to its end; the sweep can start *)
NewConfiguracaoModelo ==
  /\ pc = "config_args"
  /\ folga_minima >= 0
  /\ dias_obrigatorios_range' = NormalizaRange(range_arg)
  /\ pc' = "loop"
  /\ UNCHANGED <<args, layout, times, folga_minima,
                 mesas, posicoes, dist, cap_total, range_arg, peso_distancia,
                 cadastro, results, report>>

NextConfig ==
  \/ ConfigRejected \/ NewConfiguracaoModelo
  \/ EarlyReject \/ BuildModel \/ Solve \/ Accept \/ Reject \/ Raise \/ Return

SpecConfig == InitConfig /\ [][NextConfig]_vars

(* -------------------- construction of the venue ------------------------ *)
(* the capacity shown by the data-entry page *)
MaxSeats(cfg) == SumSeq(cfg.tables_per_corridor) * cfg.positions_per_table

ValidateLayoutConfiguration(cfg) ==
  /\ cfg.num_corridors > 0
  /\ cfg.positions_per_table > 0
  /\ Len(cfg.tables_per_corridor) = cfg.num_corridors

(* arguments a caller may hand to LayoutConfiguration, valid or not *)
LayoutArgs ==
  UNION {{[num_corridors |-> nc, tables_per_corridor |-> tpc,
           positions_per_table |-> ppt] :
            tpc \in [1..n -> -1..MaxTab]} :
         nc \in -1..MaxCorr, n \in 0..MaxCorr, ppt \in -1..MaxPos}

InitVenue ==
  /\ args \in LayoutArgs
  /\ layout = None
  /\ mesas = None
  /\ posicoes = None
  /\ dist = None
  /\ cap_total = None
  /\ times = <<>>
  /\ folga_minima = 0
  /\ dias_obrigatorios_range = <<>>
  /\ range_arg = <<>>
  /\ pc = "args"
  /\ i = 1
  /\ prob_status = None
  /\ values = None
  /\ status_k = <<>>
  /\ viaveis = <<>>
  /\ inviaveis = <<>>
  /\ alocacoes = <<>>
  /\ model_dict = <<>>
  /\ var_dict = <<>>
  /\ rep_k = None
  /\ rep = None
  /\ peso_distancia = PesoDistanciaDefault
  /\ objs = <<>>
  /\ cad = <<>>

(* LayoutConfiguration.__init__ raises ValueError: no object is made *)
LayoutRejected ==
  /\ pc = "args"
  /\ ~LayoutValid(args.num_corridors, args.tables_per_corridor,
                  args.positions_per_table)
  /\ pc' = "config_error"
  /\ UNCHANGED <<inputs, report, results>>

(* LayoutConfiguration.__init__ runs to its end and sets the three fields *)
LayoutConstructed ==
  /\ pc = "args"
  /\ LayoutValid(args.num_corridors, args.tables_per_corridor,
                 args.positions_per_table)
  /\ layout' = [num_corridors |-> args.num_corridors,
                tables_per_corridor |-> args.tables_per_corridor,
                positions_per_table |-> args.positions_per_table]
  /\ pc' = "layout"
  /\ UNCHANGED <<args, times, folga_minima, dias_obrigatorios_range,
                 mesas, posicoes, dist, cap_total, range_arg, peso_distancia,
                 cadastro, results, report>>

(* ExecucaoModelo.__init__ over the layout object *)
NewExecucaoModelo ==
  /\ pc = "layout"
  /\ mesas' = ListaMesas(layout)
  /\ posicoes' = ListaPosicoes(layout)
  /\ dist' = DistMesas(ListaMesas(layout))
  /\ cap_total' = Len(ListaPosicoes(layout))
  /\ pc' = "venue"
  /\ UNCHANGED <<args, layout, times, folga_minima, dias_obrigatorios_range,
                 range_arg, peso_distancia, cadastro, results, report>>

NextVenue == LayoutRejected \/ LayoutConstructed \/ NewExecucaoModelo

SpecVenue == InitVenue /\ [][NextVenue]_vars

(* ------------- the MILP with its table and split variables ------------ *)
(* a sweep whose solver results carry the y and z variables as well; the   *)
(* venue has two tables, so that one pair of tables exists                 *)
MaxPeso == 1

MesaKeys == {mesas[j] : j \in 1..Len(mesas)}
YKeysOf(d) == {<<t, m, d>> : t \in NomeSet, m \in MesaKeys}
ZKeysOf(d) == {<<t, pr[1], pr[2], d>> : t \in NomeSet, pr \in DOMAIN dist}
YKeys == UNION {YKeysOf(d) : d \in dias}
ZKeys == UNION {ZKeysOf(d) : d \in dias}

(* pos_mesa: the positions of table m *)
PosMesa(m) == {p \in PosSet : MesaDe(p) = m}

(* constraint: a team uses seats of a table only if y marks the table *)
Linkage(x, y, t, m, d) ==
  /\ Cardinality({p \in PosMesa(m) : x[<<t, p, d>>] = 1})
       <= layout.positions_per_table * y[<<t, m, d>>]
  /\ \A p \in PosMesa(m) : x[<<t, p, d>>] <= y[<<t, m, d>>]

(* mutant: the inequality is turned around, z is bounded from above *)
SplitUpperBound(y, z, t, m1, m2, d) ==
  z[<<t, m1, m2, d>>] <= y[<<t, m1, d>>] + y[<<t, m2, d>>] - 1

(* constraint: z is 1 when y marks both tables of the pair *)
SplitLowerBound(y, z, t, m1, m2, d) ==
  z[<<t, m1, m2, d>>] >= y[<<t, m1, d>>] + y[<<t, m2, d>>] - 1

DayConstraintsFull(a, pres, d) ==
  /\ DayConstraints(a.x, pres, d)
  /\ \A t \in NomeSet : \A m \in MesaKeys : Linkage(a.x, a.y, t, m, d)
  /\ \A t \in NomeSet : \A pr \in DOMAIN dist :
       SplitLowerBound(a.y, a.z, t, pr[1], pr[2], d)

DaySolutionsFull(pres, d) ==
  {a \in [x : DaySolutions(pres, d),
          y : [YKeysOf(d) -> {0, 1}],
          z : [ZKeysOf(d) -> {0, 1}]] : DayConstraintsFull(a, pres, d)}

RECURSIVE WeekSolutionsFull(_, _)
WeekSolutionsFull(pres, n) ==
  IF n = 0 THEN {[x |-> <<>>, y |-> <<>>, z |-> <<>>]}
  ELSE {[x |-> w.x @@ a.x, y |-> w.y @@ a.y, z |-> w.z @@ a.z] :
          w \in WeekSolutionsFull(pres, n - 1),
          a \in DaySolutionsFull(pres, DIAS_UTEIS[n])}

(* the binary assignments that satisfy every constraint of the problem *)
FeasibleFull(dias_obrig) ==
  UNION {{[x |-> w.x, pres |-> pr, y |-> w.y, z |-> w.z] :
            w \in WeekSolutionsFull(pr, Len(DIAS_UTEIS))} :
           pr \in PresSolutions(dias_obrig, Len(nomes))}

RECURSIVE SomaDist(_, _)
SomaDist(z, K) ==
  IF K = {} THEN 0
  ELSE LET key == CHOOSE q \in K : TRUE
       IN dist[<<key[2], key[3]>>] * z[key] + SomaDist(z, K \ {key})

(* mutant: the distance term is left out of the objective *)
ObjetivoSemDistancia(a) == OcupTotal(a.x)

(* the objective: seats taken minus the weighted distance of split pairs *)
Objetivo(a) == OcupTotal(a.x) - peso_distancia * SomaDist(a.z, ZKeys)

OptimalSet(dias_obrig) ==
  LET F == FeasibleFull(dias_obrig)
      V == {Objetivo(a) : a \in F}
      best == CHOOSE v \in V : \A u \in V : u <= v
  IN IF F = {} THEN {} ELSE {a \in F : Objetivo(a) = best}

NoValuesFull ==
  [x |-> [key \in XKeys |-> None], pres |-> [key \in PresKeys |-> None],
   y |-> [key \in YKeys |-> None], z |-> [key \in ZKeys |-> None]]

TwoTableLayouts ==
  {[num_corridors |-> 1, tables_per_corridor |-> <<2>>, positions_per_table |-> 1],
   [num_corridors |-> 2, tables_per_corridor |-> <<1, 1>>, positions_per_table |-> 1]}

(* one team: of one person (free to sit at either table), of two (always  *)
(* split over the two tables, absent one day when four days are required) *)
(* or of three (turned away by the pre-check)                             *)
SplitCases ==
  {[qtde |-> 1, range |-> <<5>>], [qtde |-> 2, range |-> <<5>>],
   [qtde |-> 2, range |-> <<4>>], [qtde |-> 2, range |-> <<4, 5>>],
   [qtde |-> 3, range |-> <<5>>]}

InitSplit ==
  /\ layout \in TwoTableLayouts
  /\ args = layout
  /\ \E c \in SplitCases :
       /\ times = <<[nome |-> Nomes[1], qtde_integrantes |-> c.qtde]>>
       /\ dias_obrigatorios_range = c.range
       /\ range_arg = c.range
  /\ folga_minima = 0
  /\ peso_distancia \in 0..MaxPeso
  /\ mesas = ListaMesas(layout)
  /\ posicoes = ListaPosicoes(layout)
  /\ dist = DistMesas(ListaMesas(layout))
  /\ cap_total = Len(ListaPosicoes(layout))
  /\ pc = "loop"
  /\ i = 1
  /\ prob_status = None
  /\ values = None
  /\ status_k = <<>>
  /\ viaveis = <<>>
  /\ inviaveis = <<>>
  /\ alocacoes = <<>>
  /\ model_dict = <<>>
  /\ var_dict = <<>>
  /\ rep_k = None
  /\ rep = None
  /\ objs = <<>>
  /\ cad = <<>>

(* x, y, z and pres are created without values, the problem is built and   *)
(* prob.solve is entered                                                   *)
BuildModelFull ==
  /\ InLoop
  /\ UpperBoundFeasible(k_atual)
  /\ pc' = "solve"
  /\ prob_status' = None
  /\ values' = NoValuesFull
  /\ UNCHANGED <<inputs, report, i,
                 status_k, viaveis, inviaveis, alocacoes, model_dict, var_dict>>

(* the solver returns: with Optimal an assignment of the best objective    *)
SolveFull ==
  /\ pc = "solve"
  /\ LET F == FeasibleFull(k_atual)
     IN \/ /\ prob_status' = LpStatusOptimal
           /\ values' \in OptimalSet(k_atual)
        \/ /\ prob_status' = LpStatusNotSolved
           /\ values' \in F \cup {NoValuesFull}
        \/ /\ prob_status' = LpStatusInfeasible
           /\ F = {}
           /\ values' = NoValuesFull
        \/ /\ prob_status' \in {LpStatusUnbounded, LpStatusUndefined}
           /\ values' = NoValuesFull
  /\ pc' = "solved"
  /\ UNCHANGED <<inputs, report, i,
                 status_k, viaveis, inviaveis, alocacoes, model_dict, var_dict>>

NextSplit ==
  \/ EarlyReject \/ BuildModelFull \/ SolveFull
  \/ Accept \/ Reject \/ Raise \/ Return

SpecSplit == InitSplit /\ [][NextSplit]_vars

(* ----------------------- the registry of teams ------------------------- *)
(* Time objects live in objs, in the order they were created; the registry *)
(* cad maps a name to the position of its Time object                      *)
MaxObjs == 3

NomesCadastro == {"A", "B", "C"}

semCadastro ==
  <<args, layout, times, folga_minima, dias_obrigatorios_range,
    mesas, posicoes, dist, cap_total, range_arg, peso_distancia>>

InitCadastro ==
  /\ objs = <<>>
  /\ cad = <<>>
  /\ pc = "cadastro"
  /\ args = None
  /\ layout = None
  /\ mesas = None
  /\ posicoes = None
  /\ dist = None
  /\ cap_total = None
  /\ times = <<>>
  /\ folga_minima = 0
  /\ dias_obrigatorios_range = <<>>
  /\ range_arg = <<>>
  /\ peso_distancia = PesoDistanciaDefault
  /\ i = 1
  /\ prob_status = None
  /\ values = None
  /\ status_k = <<>>
  /\ viaveis = <<>>
  /\ inviaveis = <<>>
  /\ alocacoes = <<>>
  /\ model_dict = <<>>
  /\ var_dict = <<>>
  /\ rep_k = None
  /\ rep = None

(* mutant: a team may be listed as its own synergy *)
TimeAddSinergiaNoSelfCheck(lst, nome, outro_time) ==
  IF outro_time \notin Range(lst) THEN Append(lst, outro_time) ELSE lst

(* Time.add_sinergia: the list of self after the call *)
TimeAddSinergia(lst, nome, outro_time) ==
  IF outro_time \notin Range(lst) /\ outro_time # nome
  THEN Append(lst, outro_time) ELSE lst

(* if nome_time in t.sinergias: t.sinergias.remove(nome_time) *)
RemoveSinergia(lst, nome_time) ==
  IF nome_time \in Range(lst)
  THEN LET j == CHOOSE h \in 1..Len(lst) :
                  /\ lst[h] = nome_time
                  /\ \A g \in 1..(h - 1) : lst[g] # nome_time
       IN SubSeq(lst, 1, j - 1) \o SubSeq(lst, j + 1, Len(lst))
  ELSE lst

(* validar_cadastro: TRUE when it returns True, FALSE when it raises *)
ValidarCadastro ==
  \A n \in DOMAIN cad :
    \A h \in 1..Len(objs[cad[n]].sinergias) :
      objs[cad[n]].sinergias[h] \in DOMAIN cad

(* Time(nome, qtde) raises ValueError: no object is made *)
TimeRejected ==
  /\ pc \in {"cadastro", "cadastro_error"}
  /\ Len(objs) < MaxObjs
  /\ \E qtde \in {-1, 0} : qtde <= 0
  /\ pc' = "cadastro_error"
  /\ UNCHANGED <<semCadastro, cadastro, results, report>>

(* Time(nome, qtde, []): a team with an empty synergy list *)
NewTime ==
  /\ pc \in {"cadastro", "cadastro_error"}
  /\ Len(objs) < MaxObjs
  /\ \E nome \in NomesCadastro : \E qtde \in {1} :
       /\ qtde > 0
       /\ objs' = Append(objs, [nome |-> nome, qtde_integrantes |-> qtde,
                                sinergias |-> <<>>])
  /\ pc' = "cadastro"
  /\ UNCHANGED <<semCadastro, cad, results, report>>

(* adicionar_time raises ValueError: the name is taken *)
AdicionarTimeDuplicado ==
  /\ pc \in {"cadastro", "cadastro_error"}
  /\ \E o \in 1..Len(objs) : objs[o].nome \in DOMAIN cad
  /\ pc' = "cadastro_error"
  /\ UNCHANGED <<semCadastro, cadastro, results, report>>

AdicionarTime ==
  /\ pc \in {"cadastro", "cadastro_error"}
  /\ \E o \in 1..Len(objs) :
       /\ objs[o].nome \notin DOMAIN cad
       /\ cad' = cad @@ (objs[o].nome :> o)
  /\ pc' = "cadastro"
  /\ UNCHANGED <<semCadastro, objs, results, report>>

(* remover_time: the name is popped, then taken out of the synergy lists   *)
(* of the teams that remain                                                *)
RemoverTime ==
  /\ pc \in {"cadastro", "cadastro_error"}
  /\ \E nome_time \in NomesCadastro :
       LET resto == [n \in DOMAIN cad \ {nome_time} |-> cad[n]]
       IN /\ cad' = resto
          /\ objs' = [o \in DOMAIN objs |->
                        IF \E n \in DOMAIN resto : resto[n] = o
                        THEN [objs[o] EXCEPT
                                !.sinergias = RemoveSinergia(@, nome_time)]
                        ELSE objs[o]]
  /\ pc' = "cadastro"
  /\ UNCHANGED <<semCadastro, results, report>>

(* add_sinergia raises ValueError: a team is not registered *)
AddSinergiaNaoCadastrado ==
  /\ pc \in {"cadastro", "cadastro_error"}
  /\ \E time1 \in NomesCadastro : \E time2 \in NomesCadastro :
       time1 \notin DOMAIN cad \/ time2 \notin DOMAIN cad
  /\ pc' = "cadastro_error"
  /\ UNCHANGED <<semCadastro, cadastro, results, report>>

AddSinergia ==
  /\ pc \in {"cadastro", "cadastro_error"}
  /\ \E time1 \in NomesCadastro : \E time2 \in NomesCadastro :
       /\ time1 \in DOMAIN cad
       /\ time2 \in DOMAIN cad
       /\ LET um == [objs EXCEPT ![cad[time1]].sinergias =
                        TimeAddSinergia(@, objs[cad[time1]].nome, time2)]
          IN objs' = [um EXCEPT ![cad[time2]].sinergias =
                        TimeAddSinergia(@, um[cad[time2]].nome, time1)]
  /\ pc' = "cadastro"
  /\ UNCHANGED <<semCadastro, cad, results, report>>

NextCadastro ==
  \/ TimeRejected \/ NewTime
  \/ AdicionarTimeDuplicado \/ AdicionarTime
  \/ RemoverTime
  \/ AddSinergiaNaoCadastrado \/ AddSinergia

SpecCadastro == InitCadastro /\ [][NextCadastro]_vars

(* ------------------------------ claims --------------------------------- *)
Accepted == DOMAIN viaveis
Processed == {dias_obrigatorios_range[j] : j \in 1..(i - 1)}
Configured == {dias_obrigatorios_range[j] : j \in 1..Len(dias_obrigatorios_range)}
ViableNames == {"Optimal", "Feasible"}
XVal(k, t, p, d) == var_dict[k][<<t, p, d>>]
PresVal(k, t, d) == model_dict[k].pres[<<t, d>>]
SeatsOf(k, t, d) == {p \in PosSet : XVal(k, t, p, d) = 1}
OccupiedOn(k, d) == {tp \in NomeSet \X PosSet : XVal(k, tp[1], tp[2], d) = 1}
(* the scenario whose result was routed last, with its solver status kept *)
Routed == pc \in {"loop", "returned", "raised"} /\ i > 1 /\ prob_status # None
k_ultimo == dias_obrigatorios_range[i - 1]

(* C1: in every accepted scenario (Optimal or Feasible), every seat holds  *)
(* at most one team on every day.                                          *)
C1_SeatExclusivity ==
  \A k \in Accepted : \A p \in PosSet : \A d \in dias :
    Cardinality({t \in NomeSet : XVal(k, t, p, d) = 1}) <= 1

C1_Witness ==
  \E k \in Accepted : \E d \in dias : \E t1 \in NomeSet : \E t2 \in NomeSet \ {t1} :
    /\ status_k[k] \in ViableNames
    /\ SeatsOf(k, t1, d) # {}
    /\ SeatsOf(k, t2, d) # {}

(* C2: in every accepted scenario a team occupies, on any day, either no   *)
(* seat or exactly qtde_integrantes seats.                                 *)
C2_AllOrNothing ==
  \A k \in Accepted : \A t \in NomeSet : \A d \in dias :
    Cardinality(SeatsOf(k, t, d)) \in {0, Qtde(t)}

C2_Witness ==
  \E k \in Accepted : \E t \in NomeSet : \E d1 \in dias : \E d2 \in dias :
    /\ Qtde(t) >= 2
    /\ Cardinality(SeatsOf(k, t, d1)) = Qtde(t)
    /\ SeatsOf(k, t, d2) = {}

(* C3: in every accepted scenario with required days k, every team is      *)
(* present (pres = 1) on exactly k days.                                   *)
C3_ExactDays ==
  \A k \in Accepted : \A t \in NomeSet :
    Cardinality({d \in dias : PresVal(k, t, d) = 1}) = k

C3_Witness ==
  \E k \in Accepted : \E t \in NomeSet : \E d \in dias :
    /\ k >= 1
    /\ PresVal(k, t, d) = 1
    /\ cap_total - folga_minima >= Pessoas

(* C4: in every accepted scenario the seats occupied on a day number at    *)
(* most cap_total - folga_minima.                                          *)
C4_DailySlack ==
  \A k \in Accepted : \A d \in dias :
    Cardinality(OccupiedOn(k, d)) <= cap_total - folga_minima

C4_Witness ==
  \E k \in Accepted : \E d \in dias :
    /\ folga_minima > 0
    /\ Cardinality(OccupiedOn(k, d)) = cap_total - folga_minima
    /\ OccupiedOn(k, d) # {}
    /\ Pessoas > cap_total - folga_minima

(* C5: a scenario is filed "EarlyInfeasible" exactly when its average      *)
(* daily demand, sum of sizes * k / number of days, exceeds cap_total -    *)
(* folga_minima; an accepted scenario never exceeds that bound.            *)
C5_EarlyRejectIff ==
  /\ \A k \in DOMAIN status_k :
       (status_k[k] = "EarlyInfeasible")
         <=> (Pessoas * k > Len(DIAS_UTEIS) * (cap_total - folga_minima))
  /\ \A k \in Accepted :
       Pessoas * k <= Len(DIAS_UTEIS) * (cap_total - folga_minima)

C5_Witness ==
  \E k1 \in DOMAIN inviaveis : \E k2 \in Accepted :
    /\ inviaveis[k1] = "EarlyInfeasible"
    /\ Pessoas * k2 = Len(DIAS_UTEIS) * (cap_total - folga_minima)

(* C6: the pre-check is necessary for feasibility: a scenario for which    *)
(* some assignment satisfies the attendance, exact-days and daily-slack    *)
(* constraints is never rejected early.                                    *)
ExistsAssignment(k) ==
  \E pr \in [PresKeys -> {0, 1}] :
    /\ \A t \in NomeSet : Cardinality({d \in dias : pr[<<t, d>>] = 1}) = k
    /\ \A d \in dias : \E xs \in [XKeysOf(d) -> {0, 1}] :
         /\ \A t \in NomeSet :
              Cardinality({p \in PosSet : xs[<<t, p, d>>] = 1})
                = Qtde(t) * pr[<<t, d>>]
         /\ Cardinality({key \in XKeysOf(d) : xs[key] = 1})
              <= cap_total - folga_minima

C6_PreCheckNecessary ==
  \A k \in DOMAIN status_k :
    ExistsAssignment(k) => status_k[k] # "EarlyInfeasible"

C6_Witness ==
  \E k \in DOMAIN status_k :
    /\ k >= 1
    /\ status_k[k] # "EarlyInfeasible"
    /\ ExistsAssignment(k)
    /\ Pessoas > cap_total - folga_minima

(* C7: executar returns only when some scenario was accepted, and then     *)
(* 'cenarios' is not empty; when every configured scenario was rejected    *)
(* or rejected early it raises and returns nothing.                        *)
C7_ReturnsOnlyIfAccepted ==
  /\ pc = "returned" =>
       /\ Accepted # {}
       /\ \E k \in Configured : status_k[k] \in ViableNames
  /\ (LoopDone \/ pc \in {"returned", "raised"}) =>
       ((\A k \in Configured : status_k[k] \notin ViableNames)
          => pc # "returned")
  /\ pc = "raised" => Accepted = {}

C7_Witness ==
  /\ pc = "raised"
  /\ Len(dias_obrigatorios_range) = 2
  /\ \E k \in Configured : status_k[k] = "EarlyInfeasible"

(* C8: every processed k has exactly one outcome: it is a key of exactly   *)
(* one of 'cenarios' (accepted) and 'inviaveis' (rejected or rejected      *)
(* early, with its status string); after a sweep that returns this covers  *)
(* every configured k; 'cenarios', 'alocacoes', 'model_dict' and           *)
(* 'vars_dict' have the same keys.                                         *)
C8_OneOutcome ==
  /\ pc \in {"loop", "returned", "raised"} =>
       /\ Accepted \cup DOMAIN inviaveis = Processed
       /\ DOMAIN status_k = Processed
  /\ Accepted \cap DOMAIN inviaveis = {}
  /\ \A k \in Accepted : status_k[k] \in ViableNames
  /\ \A k \in DOMAIN inviaveis :
       /\ inviaveis[k] = status_k[k]
       /\ inviaveis[k] \in {"EarlyInfeasible", "Infeasible", "Unbounded",
                            "Undefined", "Not Solved"}
  /\ pc = "returned" => Accepted \cup DOMAIN inviaveis = Configured
  /\ DOMAIN alocacoes = Accepted
  /\ DOMAIN model_dict = Accepted
  /\ DOMAIN var_dict = Accepted

C8_Witness ==
  /\ pc = "returned"
  /\ \E k1 \in Accepted : \E k2 \in DOMAIN inviaveis :
       /\ inviaveis[k2] = "EarlyInfeasible"
       /\ k1 \in DOMAIN alocacoes

(* C9: a solver status Optimal makes the scenario accepted with status     *)
(* "Optimal"; a solver status Infeasible, Unbounded or Undefined makes it  *)
(* rejected, with no metrics, and filed under the solver's status name.    *)
C9_ProvenStatus ==
  Routed =>
    /\ prob_status = LpStatusOptimal =>
         k_ultimo \in Accepted /\ status_k[k_ultimo] = "Optimal"
    /\ \A nm \in {<<LpStatusInfeasible, "Infeasible">>,
                  <<LpStatusUnbounded, "Unbounded">>,
                  <<LpStatusUndefined, "Undefined">>} :
         prob_status = nm[1] =>
           /\ k_ultimo \notin Accepted
           /\ k_ultimo \in DOMAIN inviaveis
           /\ inviaveis[k_ultimo] = nm[2]

C9_Witness ==
  /\ Routed
  /\ prob_status = LpStatusUnbounded
  /\ inviaveis[k_ultimo] = "Unbounded"
  /\ \E k \in Accepted : status_k[k] = "Optimal"

(* C10: with solver status NotSolved the scenario is accepted, with status *)
(* "Feasible", exactly when some decision variable carries a value;        *)
(* otherwise it is filed under the solver's status name; it is never       *)
(* reported "Optimal".                                                     *)
SomeVariableHasValue ==
  \/ \E key \in DOMAIN values.x : values.x[key] \in {0, 1}
  \/ \E key \in DOMAIN values.pres : values.pres[key] \in {0, 1}

C10_UnprovenStatus ==
  (Routed /\ prob_status = LpStatusNotSolved) =>
    /\ (k_ultimo \in Accepted /\ status_k[k_ultimo] = "Feasible")
         <=> SomeVariableHasValue
    /\ k_ultimo \notin Accepted =>
         k_ultimo \in DOMAIN inviaveis /\ inviaveis[k_ultimo] = "Not Solved"
    /\ status_k[k_ultimo] # "Optimal"

C10_Witness ==
  /\ Routed
  /\ prob_status = LpStatusNotSolved
  /\ status_k[k_ultimo] = "Feasible"
  /\ \E key \in DOMAIN values.x : values.x[key] = 1

(* C11 as stated: in Scenario B the pre-check rejects the scenario early,   *)
(* and the solver is never invoked for it.                                 *)
InScenarioB ==
  /\ layout = ScenarioB.layout
  /\ times = ScenarioB.times
  /\ folga_minima = ScenarioB.folga_minima
  /\ dias_obrigatorios_range = ScenarioB.dias_obrigatorios_range

C11_ScenarioB_EarlyRejected ==
  InScenarioB =>
    /\ pc \notin {"solve", "solved"}
    /\ \A k \in DOMAIN status_k : status_k[k] = "EarlyInfeasible"

(* C11, amended: in Scenario B the average daily demand, 9 * 1 / 5, is     *)
(* within the capacity 8, so the scenario passes the pre-check and the     *)
(* solver is invoked; the scenario is never accepted and never rejected    *)
(* early: it ends rejected under the solver's status name and the sweep    *)
(* raises.                                                                 *)
C11_ScenarioB_SolverRejected ==
  InScenarioB =>
    /\ cap_total = 8
    /\ UpperBoundFeasible(1)
    /\ Accepted = {}
    /\ pc # "returned"
    /\ \A k \in DOMAIN status_k :
         status_k[k] \in {"Infeasible", "Unbounded", "Undefined", "Not Solved"}
    /\ pc = "raised" => prob_status \in DOMAIN LpStatus

C11_Witness ==
  /\ InScenarioB
  /\ pc = "raised"
  /\ prob_status = LpStatusInfeasible
  /\ inviaveis[1] = "Infeasible"

(* C12 as stated: when the team sizes add up to more than the seats, no    *)
(* scenario is accepted and the sweep does not return.                     *)
C12_TotalSizeOverCapacity ==
  Pessoas > cap_total => (Accepted = {} /\ pc # "returned")

(* C12, amended: when one team alone is larger than the total seat         *)
(* capacity and every configured k is at least 1, no scenario is accepted  *)
(* and the sweep ends by raising, never by returning.                      *)
SomeTeamOverCapacity ==
  \E j \in 1..Len(times) : times[j].qtde_integrantes > cap_total

C12_OneTeamOverCapacity ==
  (SomeTeamOverCapacity /\ \A k \in Configured : k >= 1) =>
    /\ Accepted = {}
    /\ pc # "returned"
    /\ LoopDone => ENABLED Raise

C12_Witness ==
  /\ SomeTeamOverCapacity
  /\ \A k \in Configured : k >= 1
  /\ ~InScenarioB
  /\ pc = "raised"
  /\ \E k \in DOMAIN inviaveis : inviaveis[k] = "Infeasible"

(* C14 as stated: the distance table of a built venue answers for every    *)
(* ordered pair of tables, is symmetric, is zero for a table with itself,  *)
(* is the index difference inside a corridor and 5 plus the index          *)
(* difference across corridors.                                            *)
MesaSet == Range(mesas)
DistanceFormula(a, b) ==
  IF a[1] = b[1] THEN Abs(a[2] - b[2]) ELSE 5 + Abs(a[2] - b[2])

C14_DistanceSymmetricZeroOnSelf ==
  pc = "venue" =>
    \A a \in MesaSet : \A b \in MesaSet :
      /\ <<a, b>> \in DOMAIN dist
      /\ <<b, a>> \in DOMAIN dist
      /\ dist[<<a, b>>] = dist[<<b, a>>]
      /\ a = b => dist[<<a, b>>] = 0
      /\ a # b => dist[<<a, b>>] = DistanceFormula(a, b)

(* C14, amended: the distance table holds one entry for every unordered    *)
(* pair of distinct tables, under the pair ordered by table id, and no     *)
(* entry for a table with itself or for the reversed pair; the entry is    *)
(* the absolute index difference when the tables share a corridor and 5    *)
(* plus the absolute index difference otherwise, whichever table comes     *)
(* first.                                                                  *)
C14_DistanceOfUnorderedPairs ==
  pc = "venue" =>
    /\ DOMAIN dist \subseteq MesaSet \X MesaSet
    /\ \A a \in MesaSet : <<a, a>> \notin DOMAIN dist
    /\ \A a \in MesaSet : \A b \in MesaSet \ {a} :
         /\ (<<a, b>> \in DOMAIN dist) # (<<b, a>> \in DOMAIN dist)
         /\ <<a, b>> \in DOMAIN dist =>
              /\ StrLess(MesaIdChars(a), MesaIdChars(b))
              /\ a[1] = b[1] => dist[<<a, b>>] = Abs(a[2] - b[2])
              /\ a[1] # b[1] => dist[<<a, b>>] = 5 + Abs(a[2] - b[2])
              /\ dist[<<a, b>>] = DistanceFormula(b, a)
    /\ 2 * Cardinality(DOMAIN dist) = Len(mesas) * (Len(mesas) - 1)

C14_Witness ==
  /\ pc = "venue"
  /\ \E key \in DOMAIN dist : key[1][1] = key[2][1] /\ dist[key] = 2
  /\ \E key \in DOMAIN dist : key[1][1] # key[2][1] /\ dist[key] = 7

(* C15: constructing a LayoutConfiguration fails whenever the corridor     *)
(* count is not positive, the positions per table are not positive, the    *)
(* table-count list is not as long as the corridor count, or some          *)
(* corridor's table count is not positive; after a failure there is no     *)
(* layout object and no venue is built, so a venue is only ever built over *)
(* a layout that meets all four conditions.                                *)
ArgsInvalid ==
  \/ args.num_corridors <= 0
  \/ args.positions_per_table <= 0
  \/ Len(args.tables_per_corridor) # args.num_corridors
  \/ \E j \in 1..Len(args.tables_per_corridor) : args.tables_per_corridor[j] <= 0

C15_InvalidLayoutNeverBuilt ==
  /\ (pc # "args" /\ ArgsInvalid) => pc = "config_error"
  /\ pc = "args" => (ArgsInvalid <=> ENABLED LayoutRejected)
  /\ pc = "config_error" =>
       /\ layout = None
       /\ mesas = None /\ posicoes = None /\ dist = None /\ cap_total = None
       /\ ~ENABLED NewExecucaoModelo
  /\ pc \in {"layout", "venue"} =>
       /\ ~ArgsInvalid
       /\ layout.num_corridors > 0
       /\ layout.positions_per_table > 0
       /\ Len(layout.tables_per_corridor) = layout.num_corridors
       /\ \A j \in 1..Len(layout.tables_per_corridor) :
            layout.tables_per_corridor[j] > 0
       /\ ValidateLayoutConfiguration(layout)

(* the failure only the constructor catches: a corridor without tables *)
C15_Witness ==
  /\ pc = "config_error"
  /\ args.num_corridors > 0
  /\ args.positions_per_table > 0
  /\ Len(args.tables_per_corridor) = args.num_corridors
  /\ \E j \in 1..Len(args.tables_per_corridor) : args.tables_per_corridor[j] <= 0

(* C16: in a built venue the position ids are pairwise different and each  *)
(* position belongs to one table of the venue, the table ids are pairwise  *)
(* different and each table belongs to one corridor, every table has       *)
(* positions_per_table positions, and cap_total is the sum of              *)
(* tables_per_corridor times positions_per_table, the capacity the         *)
(* data-entry page shows.                                                  *)
C16_VenueIdsAndCapacity ==
  pc = "venue" =>
    /\ \A j1 \in 1..Len(posicoes) : \A j2 \in 1..Len(posicoes) :
         j1 # j2 => PosIdChars(posicoes[j1]) # PosIdChars(posicoes[j2])
    /\ \A j \in 1..Len(posicoes) :
         /\ Cardinality({n \in 1..Len(mesas) : mesas[n] = MesaDe(posicoes[j])}) = 1
         /\ CorredorDe(posicoes[j]) = MesaDe(posicoes[j])[1]
    /\ \A n1 \in 1..Len(mesas) : \A n2 \in 1..Len(mesas) :
         n1 # n2 => MesaIdChars(mesas[n1]) # MesaIdChars(mesas[n2])
    /\ \A n \in 1..Len(mesas) :
         /\ mesas[n][1] \in 1..layout.num_corridors
         /\ mesas[n][2] \in 1..layout.tables_per_corridor[mesas[n][1]]
         /\ Cardinality({j \in 1..Len(posicoes) : MesaDe(posicoes[j]) = mesas[n]})
              = layout.positions_per_table
    /\ Len(mesas) = SumSeq(layout.tables_per_corridor)
    /\ cap_total = SumSeq(layout.tables_per_corridor) * layout.positions_per_table
    /\ cap_total = MaxSeats(layout)

C16_Witness ==
  /\ pc = "venue"
  /\ layout.num_corridors = 2
  /\ layout.tables_per_corridor[1] # layout.tables_per_corridor[2]
  /\ layout.positions_per_table = 2
  /\ cap_total = MaxSeats(layout)

(* C18: relatorio_sensibilidade(k) returns an empty report whenever no     *)
(* model was retained for k, which is the case of every k that was         *)
(* rejected, rejected early or never configured, and returns the three     *)
(* tables objetivo, variaveis and restricoes for every accepted k.         *)
Asked == rep_k # None
ThreeTables == {"objetivo", "variaveis", "restricoes"}

C18_ReportEmptyOrThreeTables ==
  Asked =>
    /\ rep_k \notin DOMAIN model_dict => rep = <<>>
    /\ rep_k \in DOMAIN inviaveis => rep = <<>>
    /\ rep_k \notin Configured => rep = <<>>
    /\ rep_k \in Accepted =>
         /\ DOMAIN rep = ThreeTables
         /\ Cardinality(rep.objetivo) = 1
         /\ Cardinality(rep.variaveis) = Cardinality(XKeys)
         /\ rep.restricoes # {}

C18_Witness ==
  /\ Asked
  /\ rep_k \in DOMAIN inviaveis
  /\ inviaveis[rep_k] = "EarlyInfeasible"
  /\ rep = <<>>
  /\ \E k \in Accepted : RelatorioSensibilidade(k) # <<>>

(* C19 as stated: in the constraint table of the report every constraint   *)
(* carries the label of the family that generated it: seat constraints     *)
(* the capacity label, x/y linkage constraints the contiguity label, z     *)
(* constraints the split-distance label, attendance and presence-count     *)
(* constraints the attendance label, daily slack constraints the           *)
(* global-capacity label.                                                  *)
FamilyLabel(fam) ==
  CASE fam = "seat" -> "Capacidade Assento"
    [] fam = "link" -> "Contiguidade Time x Mesa"
    [] fam = "split" -> "Distancia Intra-time"
    [] fam \in {"full", "days"} -> "Obrigatoriedade de dias"
    [] fam = "slack" -> "Capacidade Total"

C19_LabelsFollowFamilies ==
  (Asked /\ rep_k \in Accepted) =>
    \A n \in 1..Len(ConstraintFamilies) :
      \E row \in rep.restricoes :
        /\ row.Restricao_ID = ConstraintName(n)
        /\ row.Tipo = FamilyLabel(ConstraintFamilies[n])

(* C20: a rejection, by the solver or by the pre-check, never ends the     *)
(* sweep: the rejected k is filed in 'inviaveis' and the next scenario is  *)
(* taken up; executar raises only after every configured scenario was      *)
(* processed and none was accepted.                                        *)
C20_RejectionNeverAborts ==
  /\ \A k \in Processed \ Accepted : k \in DOMAIN inviaveis
  /\ pc = "raised" =>
       /\ i > Len(dias_obrigatorios_range)
       /\ Accepted = {}
       /\ DOMAIN inviaveis = Configured
  /\ pc = "returned" => Processed = Configured
  /\ (InLoop /\ i > 1 /\ k_ultimo \in DOMAIN inviaveis) =>
       ENABLED (EarlyReject \/ BuildModel)

C20_Witness ==
  /\ pc = "returned"
  /\ Len(dias_obrigatorios_range) = 2
  /\ dias_obrigatorios_range[1] \in DOMAIN inviaveis
  /\ dias_obrigatorios_range[2] \in Accepted

(* C21: once ConfiguracaoModelo is constructed, dias_obrigatorios_range is *)
(* not empty and strictly ascending (so without duplicates), it holds the  *)
(* values of the list handed over, or [2] when that list is empty or       *)
(* missing; the sweep takes its values one by one in ascending order and   *)
(* files each exactly once.                                                *)
ConfigConstructed == pc \notin {"config_args", "config_error"}

C21_RangeShape ==
  ConfigConstructed =>
    /\ Len(dias_obrigatorios_range) >= 1
    /\ \A j \in 1..Len(dias_obrigatorios_range) :
         \A n \in 1..Len(dias_obrigatorios_range) :
           j < n => dias_obrigatorios_range[j] < dias_obrigatorios_range[n]
    /\ IF range_arg = ArgNone \/ range_arg = <<>>
       THEN dias_obrigatorios_range = <<2>>
       ELSE Range(dias_obrigatorios_range) = Range(range_arg)
    /\ DOMAIN status_k = Processed
    /\ Cardinality(DOMAIN status_k) = i - 1
    /\ pc \in {"returned", "raised"} => DOMAIN status_k = Configured

C21_OneByOne ==
  (status_k' # status_k \/ i' # i) =>
    /\ i' = i + 1
    /\ k_atual \notin DOMAIN status_k
    /\ DOMAIN status_k' = DOMAIN status_k \cup {k_atual}
    /\ \A k \in DOMAIN status_k : k < k_atual

C21_RangeSortedDedupedSweptOnce == [](C21_RangeShape) /\ [][C21_OneByOne]_vars

C21_Witness ==
  /\ pc = "returned"
  /\ Len(range_arg) = 3
  /\ range_arg[1] > range_arg[2]
  /\ range_arg[1] = range_arg[3]
  /\ Len(dias_obrigatorios_range) = 2
  /\ DOMAIN status_k = Range(range_arg)

(* C22: within one scenario the capacity pre-check comes first: when it    *)
(* fails nothing is built and the solver is not called for that k; when it *)
(* passes the model is built and solved once, and the status is read, the  *)
(* metrics computed and the allocation extracted only after the solver has *)
(* returned.                                                               *)
C22_Position ==
  /\ pc \in {"solve", "solved"} =>
       /\ i <= Len(dias_obrigatorios_range)
       /\ UpperBoundFeasible(k_atual)
       /\ k_atual \notin DOMAIN status_k
  /\ pc = "solved" => prob_status \in DOMAIN LpStatus
  /\ \A k \in DOMAIN status_k :
       IF UpperBoundFeasible(k)
       THEN status_k[k] # "EarlyInfeasible"
       ELSE /\ status_k[k] = "EarlyInfeasible"
            /\ k \notin DOMAIN model_dict
            /\ k \notin DOMAIN var_dict
            /\ k \notin DOMAIN viaveis
            /\ k \notin DOMAIN alocacoes

C22_Step ==
  /\ i' >= i
  /\ (pc' = "solve" /\ pc # "solve") =>
       pc = "loop" /\ UpperBoundFeasible(k_atual) /\ i' = i
  /\ pc = "solve" => (pc' = "solved" /\ i' = i /\ status_k' = status_k)
  /\ (pc' = "solved" /\ pc # "solved") => pc = "solve"
  /\ pc = "solved" => (pc' = "loop" /\ i' = i + 1 /\ k_atual \in DOMAIN status_k')
  /\ i' # i =>
       \/ /\ pc = "loop"
          /\ ~UpperBoundFeasible(k_atual)
          /\ pc' = "loop"
          /\ prob_status' = None
          /\ values' = None
          /\ status_k'[k_atual] = "EarlyInfeasible"
          /\ UNCHANGED <<viaveis, alocacoes, model_dict, var_dict>>
       \/ /\ pc = "solved"
          /\ status_k'[k_atual] # "EarlyInfeasible"
  /\ (viaveis' # viaveis \/ alocacoes' # alocacoes \/ model_dict' # model_dict
        \/ var_dict' # var_dict \/ inviaveis' # inviaveis \/ status_k' # status_k)
       => i' = i + 1

C22_PreCheckThenSolveThenRead == [](C22_Position) /\ [][C22_Step]_vars

C22_Witness ==
  /\ pc = "returned"
  /\ \E k1 \in DOMAIN status_k : status_k[k1] = "EarlyInfeasible"
  /\ \E k2 \in Accepted : status_k[k2] = "Feasible"

(* C23: for an accepted k the extracted allocation holds one occurrence of *)
(* the team name per x[team, pos, day] = 1, in the entry of the position's *)
(* table inside the group keyed by (k, day, corridor); a table appears at  *)
(* most once per group; the names listed for a table on a day are as many  *)
(* as its occupied seats that day, at most positions_per_table; and the    *)
(* names in total are ocup_total.                                          *)
NamesAt(k, d, mesa) ==
  LET chave == <<k, d, mesa[1]>>
      lst == IF chave \in DOMAIN alocacoes[k] THEN alocacoes[k][chave] ELSE <<>>
      j == FindMesa(lst, mesa[2])
  IN IF j = 0 THEN <<>> ELSE lst[j].posicoes

NameSlots(k) ==
  UNION {UNION {{<<c, j, h>> : h \in 1..Len(alocacoes[k][c][j].posicoes)} :
                  j \in 1..Len(alocacoes[k][c])} : c \in DOMAIN alocacoes[k]}

C23_AllocationMirrorsSeats ==
  \A k \in Accepted :
    /\ k \in DOMAIN alocacoes
    /\ \A c \in DOMAIN alocacoes[k] :
         /\ c[1] = k /\ c[2] \in dias
         /\ \A j \in 1..Len(alocacoes[k][c]) :
              /\ alocacoes[k][c][j].corredor = c[3]
              /\ <<c[3], alocacoes[k][c][j].mesa>> \in MesaSet
              /\ \A h \in 1..Len(alocacoes[k][c]) :
                   alocacoes[k][c][j].mesa = alocacoes[k][c][h].mesa => j = h
    /\ \A d \in dias : \A mesa \in MesaSet :
         /\ \A t \in NomeSet :
              Cardinality({h \in 1..Len(NamesAt(k, d, mesa)) :
                             NamesAt(k, d, mesa)[h] = t})
                = Cardinality({p \in SeatsOf(k, t, d) : MesaDe(p) = mesa})
         /\ Len(NamesAt(k, d, mesa))
              = Cardinality({tp \in OccupiedOn(k, d) : MesaDe(tp[2]) = mesa})
         /\ Len(NamesAt(k, d, mesa)) <= layout.positions_per_table
    /\ Cardinality(NameSlots(k)) = viaveis[k].ocup_total

C23_Witness ==
  \E k \in Accepted : \E c \in DOMAIN alocacoes[k] :
    \E j \in 1..Len(alocacoes[k][c]) :
      /\ Len(alocacoes[k][c][j].posicoes) = 2
      /\ alocacoes[k][c][j].posicoes[1] # alocacoes[k][c][j].posicoes[2]

(* C24: the distance table has exactly one key for every unordered pair of *)
(* distinct tables and none for a table with itself; and in any assignment *)
(* that satisfies the constraints, a team with at least one seat on each   *)
(* of two distinct tables on the same day has z = 1 for that pair and day. *)
ValuesRead == pc = "solved" \/ Routed
TablesUsed(x, t, d) ==
  {m \in MesaKeys : \E p \in PosMesa(m) : x[<<t, p, d>>] = 1}

SplitFlagged(a) ==
  \A t \in NomeSet : \A d \in dias : \A pr \in DOMAIN dist :
    (pr[1] \in TablesUsed(a.x, t, d) /\ pr[2] \in TablesUsed(a.x, t, d))
      => a.z[<<t, pr[1], pr[2], d>>] = 1

C24_SplitPairsAreFlagged ==
  /\ DOMAIN dist \subseteq MesaKeys \X MesaKeys
  /\ \A a \in MesaKeys : \A b \in MesaKeys :
       IF a = b THEN <<a, b>> \notin DOMAIN dist
       ELSE (<<a, b>> \in DOMAIN dist) # (<<b, a>> \in DOMAIN dist)
  /\ (ValuesRead /\ AnyValue(values)) => SplitFlagged(values)
  /\ pc = "solve" => \A a \in FeasibleFull(k_atual) : SplitFlagged(a)

C24_Witness ==
  /\ pc = "solved"
  /\ prob_status = LpStatusNotSolved
  /\ AnyValue(values)
  /\ k_atual = 4
  /\ \E t \in NomeSet : \E pr \in DOMAIN dist :
       /\ \E d \in dias :
            /\ TablesUsed(values.x, t, d) = {pr[1], pr[2]}
            /\ values.z[<<t, pr[1], pr[2], d>>] = 1
       /\ \E d \in dias :
            /\ TablesUsed(values.x, t, d) = {}
            /\ values.z[<<t, pr[1], pr[2], d>>] = 0

(* C25 as stated: in every Optimal solution z is 1 only where y marks both *)
(* tables of the pair, so that only pairs on which the team has seats are  *)
(* counted.                                                                *)
ZOnlyOnFootprint(a) ==
  \A t \in NomeSet : \A d \in dias : \A pr \in DOMAIN dist :
    a.z[<<t, pr[1], pr[2], d>>] = 1 =>
      /\ a.y[<<t, pr[1], d>>] = 1
      /\ a.y[<<t, pr[2], d>>] = 1
      /\ pr[1] \in TablesUsed(a.x, t, d)
      /\ pr[2] \in TablesUsed(a.x, t, d)

C25_OptimalZAtLowerBound ==
  (ValuesRead /\ prob_status = LpStatusOptimal) => ZOnlyOnFootprint(values)

(* C25, amended: when the distance weight is greater than zero, in every   *)
(* Optimal solution z is 1 only where y marks both tables of the pair and  *)
(* the team has seats on both.                                             *)
C25_OptimalZAtLowerBoundWhenWeighted ==
  (ValuesRead /\ prob_status = LpStatusOptimal /\ peso_distancia > 0)
    => ZOnlyOnFootprint(values)

C25_Witness ==
  /\ pc = "solved"
  /\ prob_status = LpStatusOptimal
  /\ peso_distancia > 0
  /\ k_atual = 4
  /\ \E key \in ZKeys : values.z[key] = 1
  /\ \E key \in ZKeys : values.z[key] = 0

(* C26: every assignment that meets the attendance and exact-days          *)
(* constraints occupies k times the sum of the team sizes seats, so every  *)
(* accepted k has ocup_total = k * sum of sizes and a weekly rate of that  *)
(* number over 5 * cap_total (rounded to three decimals), and the          *)
(* occupancy term of the objective is the same for all feasible            *)
(* assignments.                                                            *)
C26_OccupancyFixedByK ==
  /\ \A k \in Accepted :
       /\ viaveis[k].ocup_total = k * Pessoas
       /\ OcupTotal(var_dict[k]) = k * Pessoas
       /\ 2 * Abs(viaveis[k].taxa_semanal * Len(DIAS_UTEIS) * cap_total
                    - 1000 * k * Pessoas) <= Len(DIAS_UTEIS) * cap_total
  /\ pc = "solve" =>
       \A v \in FeasibleSet(k_atual) : OcupTotal(v.x) = k_atual * Pessoas

C26_Witness ==
  /\ 1 \in Accepted
  /\ Pessoas = 2
  /\ viaveis[1].ocup_total = 2
  /\ viaveis[1].taxa_semanal = 200
  /\ Cardinality(FeasibleSet(1)) > 1

(* C27: whenever a NotSolved result is accepted as "Feasible", every x     *)
(* variable carries a concrete value, so ocup_total and the extraction are *)
(* computed from numbers and the scenario ends accepted, with its metrics  *)
(* and allocation kept, instead of aborting the sweep.                     *)
C27_Kept ==
  (Routed /\ prob_status = LpStatusNotSolved /\ status_k[k_ultimo] = "Feasible") =>
    /\ \A key \in XKeys :
         values.x[key] \in {0, 1} /\ var_dict[k_ultimo][key] = values.x[key]
    /\ k_ultimo \in Accepted
    /\ k_ultimo \notin DOMAIN inviaveis
    /\ viaveis[k_ultimo].ocup_total
         = Cardinality({key \in XKeys : values.x[key] = 1})
    /\ k_ultimo \in DOMAIN alocacoes
    /\ Cardinality(NameSlots(k_ultimo)) = viaveis[k_ultimo].ocup_total

C27_Taken ==
  (pc = "solved" /\ prob_status = LpStatusNotSolved /\ AnyValue(values)) =>
    /\ \A key \in XKeys : values.x[key] \in {0, 1}
    /\ pc' = "loop"
    /\ k_atual \in DOMAIN viaveis'
    /\ status_k'[k_atual] = "Feasible"

SinergiasDe(n) == Range(objs[cad[n]].sinergias)

KeysAreNames ==
  /\ \A n \in DOMAIN cad : objs[cad[n]].nome = n
  /\ \A n \in DOMAIN cad : \A m \in DOMAIN cad : cad[n] = cad[m] => n = m

SinergiaWellFormed ==
  /\ \A a \in DOMAIN cad :
       /\ a \notin SinergiasDe(a)
       /\ \A b \in SinergiasDe(a) : b \in DOMAIN cad /\ a \in SinergiasDe(b)
  /\ ValidarCadastro

C28_RegistryWellFormed == KeysAreNames /\ SinergiaWellFormed

(* C28, amended: the same, for sequences in which adicionar_time is only   *)
(* called with a team whose synergy list is empty at that moment; a failed *)
(* adicionar_time or add_sinergia leaves the registry unchanged.           *)
StaleRegistration ==
  \E n \in DOMAIN cad' \ DOMAIN cad : objs[cad'[n]].sinergias # <<>>

C28_Step ==
  /\ pc' = "cadastro_error" => UNCHANGED <<objs, cad>>
  /\ (SinergiaWellFormed /\ ~StaleRegistration) => SinergiaWellFormed'

C28_RegistryWellFormedFromEmptyLists == [](KeysAreNames) /\ [][C28_Step]_vars

C28_Witness ==
  /\ pc = "cadastro_error"
  /\ DOMAIN cad = {"A", "B"}
  /\ SinergiasDe("A") = {"B"}
  /\ SinergiasDe("B") = {"A"}
  /\ \E o \in 1..Len(objs) :
       /\ objs[o].nome = "C"
       /\ objs[o].sinergias # <<>>

====
